---- MODULE Spec2Model ----
(***************************************************************************)
(* A model of the Stronghold connector (src/js/stronghold.js): the request *)
(* signer, the error classifier, the sandbox toggle and the trade, order, *)
(* balance and currency normalizers.                                       *)
(*                                                                         *)
(* JavaScript values are tagged records, so that undefined, NaN, strings,  *)
(* numbers and booleans stay distinct.  A JavaScript object is a sequence  *)
(* of <<key, value>> pairs in insertion order.  Numbers read from decimal  *)
(* strings are held in fixed point, in units of 10^-Scale.                 *)
(***************************************************************************)
EXTENDS Integers, Sequences, FiniteSets

VARIABLES
    now,        \* the wall clock, in milliseconds
    issued,     \* the nonces of the signed private requests, oldest first
    apiKey,     \* this.apiKey
    secret,     \* this.secret
    password,   \* this.password
    options,    \* this.options
    markets_by_id, \* this.markets_by_id, undefined until the markets are loaded
    call,       \* the last operation called, with its arguments
    ret         \* what that operation returned or threw

vars == <<now, issued, apiKey, secret, password, options, markets_by_id, call, ret>>

-----------------------------------------------------------------------------
(* Bounds of the model                                                     *)

MaxSigned == 2      \* signed private requests followed in `issued`
MaxTicks == 3       \* clock steps taken
Scale == 2          \* decimal places kept of a number read from a string

-----------------------------------------------------------------------------
(* JavaScript values                                                       *)

Undef == [t |-> "undefined"]
NaN == [t |-> "NaN"]
Str(s) == [t |-> "string", v |-> s]
Num(n) == [t |-> "number", v |-> n]
Bool(b) == [t |-> "boolean", v |-> b]
Obj(o) == [t |-> "object", v |-> o]

IsUndef(x) == x.t = "undefined"
IsNum(x) == x.t = "number"

\* ToBoolean, as `!x` and `if (x)` apply it
Truthy(x) ==
    CASE x.t = "undefined" -> FALSE
      [] x.t = "NaN" -> FALSE
      [] x.t = "boolean" -> x.v
      [] x.t = "string" -> x.v # ""
      [] x.t = "number" -> x.v # 0
      [] OTHER -> TRUE

\* the property key a value is converted to by `x in o` and `o[x]`
ToKey(x) == IF x.t = "string" THEN x.v ELSE x.t

Keys(o) == { o[i][1] : i \in 1..Len(o) }
Has(o, k) == k \in Keys(o)
Get(o, k) == IF Has(o, k) THEN o[CHOOSE i \in 1..Len(o) : o[i][1] = k][2] ELSE Undef

\* o[k] = v
Put(o, k, v) ==
    IF Has(o, k)
    THEN [i \in 1..Len(o) |-> IF o[i][1] = k THEN <<k, v>> ELSE o[i]]
    ELSE Append(o, <<k, v>>)

RECURSIVE Extend(_, _)
Extend(a, b) == IF b = <<>> THEN a ELSE Extend(Put(a, Head(b)[1], Head(b)[2]), Tail(b))

Omit(o, ks) == SelectSeq(o, LAMBDA p : p[1] \notin ks)

safeString(o, k) == IF Get(o, k).t = "string" THEN Get(o, k) ELSE Undef
safeValue(o, k) == Get(o, k)

Digit(d) == CASE d = 0 -> "0" [] d = 1 -> "1" [] d = 2 -> "2" [] d = 3 -> "3"
              [] d = 4 -> "4" [] d = 5 -> "5" [] d = 6 -> "6" [] d = 7 -> "7"
              [] d = 8 -> "8" [] d = 9 -> "9"

\* Number.prototype.toString of a non-negative integer
RECURSIVE toString(_)
toString(n) == IF n < 10 THEN Digit(n) ELSE toString(n \div 10) \o Digit(n % 10)

\* JSON.stringify of a string, an undefined or an object of strings
RECURSIVE JsonMembers(_)
JsonMembers(o) ==
    IF o = <<>> THEN ""
    ELSE "\"" \o o[1][1] \o "\":\"" \o o[1][2].v \o "\""
         \o (IF Len(o) > 1 THEN "," ELSE "") \o JsonMembers(Tail(o))

json(o) == "{" \o JsonMembers(SelectSeq(o, LAMBDA p : p[2].t = "string")) \o "}"

RECURSIVE urlencode(_)
urlencode(o) ==
    IF o = <<>> THEN ""
    ELSE o[1][1] \o "=" \o o[1][2].v
         \o (IF Len(o) > 1 THEN "&" ELSE "") \o urlencode(Tail(o))

-----------------------------------------------------------------------------
(* Numbers.  A string that is parsed or split is held as the sequence of   *)
(* its characters.                                                         *)

IsDigit(c) == c \in {"0", "1", "2", "3", "4", "5", "6", "7", "8", "9"}

DigitValue(c) == CASE c = "0" -> 0 [] c = "1" -> 1 [] c = "2" -> 2 [] c = "3" -> 3
                   [] c = "4" -> 4 [] c = "5" -> 5 [] c = "6" -> 6 [] c = "7" -> 7
                   [] c = "8" -> 8 [] c = "9" -> 9

RECURSIVE Pow10(_)
Pow10(n) == IF n = 0 THEN 1 ELSE 10 * Pow10(n - 1)

RECURSIVE LeadingDigits(_)
LeadingDigits(cs) ==
    IF cs = <<>> \/ ~IsDigit(cs[1]) THEN 0 ELSE 1 + LeadingDigits(Tail(cs))

RECURSIVE IntegerOf(_)
IntegerOf(ds) ==
    IF ds = <<>> THEN 0
    ELSE 10 * IntegerOf(SubSeq(ds, 1, Len(ds) - 1)) + DigitValue(ds[Len(ds)])

\* the first Scale digits of a fraction, as units of 10^-Scale
FractionOf(ds) == IntegerOf([i \in 1..Scale |-> IF i <= Len(ds) THEN ds[i] ELSE "0"])

\* parseFloat: the longest leading [-]digits[.digits], NaN when there is none
parseFloat(cs) ==
    LET negative == cs # <<>> /\ cs[1] = "-"
        unsigned == IF negative THEN Tail(cs) ELSE cs
        n == LeadingDigits(unsigned)
        rest == SubSeq(unsigned, n + 1, Len(unsigned))
        fraction == IF rest # <<>> /\ rest[1] = "." THEN Tail(rest) ELSE <<>>
        m == LeadingDigits(fraction)
        magnitude == IntegerOf(SubSeq(unsigned, 1, n)) * Pow10(Scale)
                     + FractionOf(SubSeq(fraction, 1, m))
    IN  IF n = 0 /\ m = 0 THEN NaN
        ELSE Num(IF negative THEN 0 - magnitude ELSE magnitude)

asFloat(x) ==
    CASE x.t = "number" -> x
      [] x.t = "string" -> parseFloat(x.v)
      [] OTHER -> NaN

safeFloat(o, k, default) ==
    LET n == asFloat(Get(o, k)) IN IF IsNum(n) THEN n ELSE default

\* a - b
Minus(a, b) == IF IsNum(a) /\ IsNum(b) THEN Num(a.v - b.v) ELSE NaN

\* the characters before the first separator: s.split (separator)[0]
RECURSIVE SplitFirst(_, _)
SplitFirst(cs, separator) ==
    IF cs = <<>> \/ cs[1] = separator THEN <<>>
    ELSE <<cs[1]>> \o SplitFirst(Tail(cs), separator)

RECURSIVE Joined(_)
Joined(cs) == IF cs = <<>> THEN "" ELSE cs[1] \o Joined(Tail(cs))

\* the venue's codes that the client renames
commonCurrencyCode(code) ==
    CASE code = "XBT" -> "BTC"
      [] code = "BCC" -> "BCH"
      [] code = "DRK" -> "DASH"
      [] OTHER -> code

\* the instant an ISO-8601 string names
parse8601(x) == IF x.t = "string" THEN [t |-> "instant", of |-> x.v] ELSE Undef

-----------------------------------------------------------------------------
(* describe ()                                                             *)

id == "stronghold"
version == "v1"

urls == [api |-> [public |-> "https://api.stronghold.co",
                  private |-> "https://api.stronghold.co"]]

requiredCredentials == <<"apiKey", "secret", "password">>

\* options.venues is an array: its own keys are its indices
describeOptions ==
    [accountId |-> Undef,
     venueId |-> Str("trade-public"),
     venues |-> << <<"0", Str("trade-public")>>, <<"1", Str("sandbox-public")>> >>]

\* a table whose stale-nonce code is filed with the authentication failures
exceptions_TimeAsAuthentication ==
    << <<"CREDENTIAL_MISSING", "AuthenticationError">>,
       <<"CREDENTIAL_INVALID", "AuthenticationError">>,
       <<"CREDENTIAL_REVOKED", "AccountSuspended">>,
       <<"CREDENTIAL_NO_IDENTITY", "AuthenticationError">>,
       <<"PASSPHRASE_INVALID", "AuthenticationError">>,
       <<"SIGNATURE_INVALID", "AuthenticationError">>,
       <<"TIME_INVALID", "AuthenticationError">>,
       <<"BYPASS_INVALID", "AuthenticationError">>,
       <<"INSUFFICIENT_FUNDS", "InsufficientFunds">> >>

exceptions ==
    << <<"CREDENTIAL_MISSING", "AuthenticationError">>,
       <<"CREDENTIAL_INVALID", "AuthenticationError">>,
       <<"CREDENTIAL_REVOKED", "AccountSuspended">>,
       <<"CREDENTIAL_NO_IDENTITY", "AuthenticationError">>,
       <<"PASSPHRASE_INVALID", "AuthenticationError">>,
       <<"SIGNATURE_INVALID", "AuthenticationError">>,
       <<"TIME_INVALID", "InvalidNonce">>,
       <<"BYPASS_INVALID", "AuthenticationError">>,
       <<"INSUFFICIENT_FUNDS", "InsufficientFunds">> >>

-----------------------------------------------------------------------------
(* Outcomes of a call                                                      *)

Return(v) == [kind |-> "return", value |-> v]
Throw(e, m) == [kind |-> "throw", error |-> e, message |-> m]

Returned == ret.kind = "return"
Threw == ret.kind = "throw"

-----------------------------------------------------------------------------
(* handleErrors (code, reason, url, method, headers, body, response)       *)

\* the success flag looked at before the error code
handleErrors_SuccessFirst(body, response) ==
    IF ~Truthy(response)
    THEN Return(Undef)
    ELSE LET errorCode == safeString(response.v, "errorCode")
             success == safeValue(response.v, "success")
         IN  IF ~Truthy(success)
             THEN Throw("ExchangeError", id \o " " \o body)
             ELSE IF Has(exceptions, ToKey(errorCode))
                  THEN Throw(Get(exceptions, ToKey(errorCode)), id \o " " \o body)
                  ELSE Return(Undef)

\* the generic check left out: only recognized codes raise
handleErrors_NoGenericCheck(body, response) ==
    IF ~Truthy(response)
    THEN Return(Undef)
    ELSE LET errorCode == safeString(response.v, "errorCode")
         IN  IF Has(exceptions, ToKey(errorCode))
             THEN Throw(Get(exceptions, ToKey(errorCode)), id \o " " \o body)
             ELSE Return(Undef)

handleErrors(body, response) ==
    IF ~Truthy(response)
    THEN Return(Undef)
    ELSE LET errorCode == safeString(response.v, "errorCode")
             success == safeValue(response.v, "success")
         IN  IF Has(exceptions, ToKey(errorCode))
             THEN Throw(Get(exceptions, ToKey(errorCode)), id \o " " \o body)
             ELSE IF ~Truthy(success)
                  THEN Throw("ExchangeError", id \o " " \o body)
                  ELSE Return(Undef)

-----------------------------------------------------------------------------
(* Response envelopes the venue can send                                   *)

ErrorCodes == Keys(exceptions) \cup {"UNKNOWN_X"}

Envelope(ec, sc) ==
    (IF sc = "absent" THEN <<>> ELSE << <<"success", Bool(sc = "true")>> >>)
    \o (IF ec = "absent" THEN <<>> ELSE << <<"errorCode", Str(ec)>> >>)

Envelopes == { Envelope(ec, sc) : ec \in ErrorCodes \cup {"absent"},
                                  sc \in {"true", "false", "absent"} }

\* the raw text of an envelope
RECURSIVE RawMembers(_)
RawMembers(o) ==
    IF o = <<>> THEN ""
    ELSE "\"" \o o[1][1] \o "\":"
         \o (CASE o[1][2].t = "string" -> "\"" \o o[1][2].v \o "\""
               [] o[1][2].t = "boolean" -> (IF o[1][2].v THEN "true" ELSE "false")
               [] OTHER -> "null")
         \o (IF Len(o) > 1 THEN "," ELSE "") \o RawMembers(Tail(o))

RawBody(o) == "{" \o RawMembers(o) \o "}"

\* bodies that do not decode: parseJson leaves the response undefined
Undecodable == {"", "<html>Bad Gateway</html>"}

-----------------------------------------------------------------------------
(* Endpoint paths: a path template is a sequence of segments, each a       *)
(* literal or a {parameter}                                                *)

Lit(s) == [lit |-> TRUE, s |-> s]
Par(s) == [lit |-> FALSE, s |-> s]

Segment(p, params) ==
    IF p.lit THEN p.s
    ELSE IF Has(params, p.s) /\ Get(params, p.s).t = "string"
         THEN Get(params, p.s).v
         ELSE "{" \o p.s \o "}"

\* every {parameter} the params hold is replaced by its value
RECURSIVE implodeParams(_, _)
implodeParams(path, params) ==
    IF path = <<>> THEN ""
    ELSE Segment(path[1], params)
         \o (IF Len(path) > 1 THEN "/" ELSE "") \o implodeParams(Tail(path), params)

extractParams(path) == { path[i].s : i \in { j \in 1..Len(path) : ~path[j].lit } }

-----------------------------------------------------------------------------
(* nonce () and sign (path, api, method, params, headers, body)            *)

seconds == now \div 1000

nonce == seconds

\* the credentials of requiredCredentials that are not set
MissingCredentials ==
    { k \in { requiredCredentials[i] : i \in 1..Len(requiredCredentials) } :
        ~Truthy(CASE k = "apiKey" -> apiKey [] k = "secret" -> secret [] OTHER -> password) }

CredentialError == "ConfigurationError"

checkRequiredCredentials == MissingCredentials = {}

base64ToBinary(s) == [t |-> "binary", base64 |-> s]

hmac(payload, key, algorithm, digest) ==
    [t |-> "hmac", payload |-> payload, key |-> key, algorithm |-> algorithm, digest |-> digest]

Request(url, method, body, headers) ==
    [url |-> url, method |-> method, body |-> body, headers |-> headers]

\* the payload with the method put before the timestamp
signingPayload_MethodFirst(timestamp, method, request, body) ==
    method \o timestamp \o request \o (IF ~IsUndef(body) THEN body.v ELSE "")

\* the payload that is signed
signingPayload(timestamp, method, request, body) ==
    timestamp \o method \o request \o (IF ~IsUndef(body) THEN body.v ELSE "")

\* the nonce drawn before the credentials are checked
sign_NonceBeforeCheck(path, api, method, params, headers, body) ==
    LET request == "/" \o version \o "/" \o implodeParams(path, params)
        query == Omit(params, extractParams(path))
        url0 == urls.api[api] \o request
        url == IF method = "GET" /\ Len(query) > 0
               THEN url0 \o "?" \o urlencode(query)
               ELSE url0
        body1 == IF method = "GET" /\ Len(query) = 0 THEN Str(json(query)) ELSE body
    IN  IF api = "private"
        THEN IF ~checkRequiredCredentials
             THEN [out |-> Throw(CredentialError, id), drawn |-> <<nonce>>]
             ELSE LET timestamp == toString(nonce)
                      payload == signingPayload(timestamp, method, request, body1)
                      signed == << <<"SH-CRED-ID", apiKey>>,
                                   <<"SH-CRED-SIG",
                                     hmac(payload, base64ToBinary(secret), "sha256", "base64")>>,
                                   <<"SH-CRED-TIME", Str(timestamp)>>,
                                   <<"SH-CRED-PASS", password>>,
                                   <<"Content-Type", Str("application/json")>> >>
                  IN  [out |-> Return(Request(url, method, body1, Obj(signed))),
                       drawn |-> <<nonce>>]
        ELSE [out |-> Return(Request(url, method, body1, headers)), drawn |-> <<>>]

\* the outcome of sign and the nonces it drew
sign(path, api, method, params, headers, body) ==
    LET request == "/" \o version \o "/" \o implodeParams(path, params)
        query == Omit(params, extractParams(path))
        url0 == urls.api[api] \o request
        url == IF method = "GET" /\ Len(query) > 0
               THEN url0 \o "?" \o urlencode(query)
               ELSE url0
        body1 == IF method = "GET" /\ Len(query) = 0 THEN Str(json(query)) ELSE body
    IN  IF api = "private"
        THEN IF ~checkRequiredCredentials
             THEN [out |-> Throw(CredentialError, id), drawn |-> <<>>]
             ELSE LET timestamp == toString(nonce)
                      payload == signingPayload(timestamp, method, request, body1)
                      signed == << <<"SH-CRED-ID", apiKey>>,
                                   <<"SH-CRED-SIG",
                                     hmac(payload, base64ToBinary(secret), "sha256", "base64")>>,
                                   <<"SH-CRED-TIME", Str(timestamp)>>,
                                   <<"SH-CRED-PASS", password>>,
                                   <<"Content-Type", Str("application/json")>> >>
                  IN  [out |-> Return(Request(url, method, body1, Obj(signed))),
                       drawn |-> <<nonce>>]
        ELSE [out |-> Return(Request(url, method, body1, headers)), drawn |-> <<>>]

-----------------------------------------------------------------------------
(* Calls the surrounding client makes                                      *)

StartMs == 9000     \* the clock at construction
TickMs == 500       \* one clock step

Methods == {"GET", "POST", "PUT", "PATCH", "DELETE"}

OrdersPath ==
    << Lit("venues"), Par("venueId"), Lit("accounts"), Par("accountId"), Lit("orders") >>

Account == << <<"venueId", Str("trade-public")>>, <<"accountId", Str("acct")>> >>

\* the endpoints called, each a path template with the parameters given
Endpoints ==
    { [path |-> << Lit("venues") >>, params |-> <<>>],
      [path |-> << Lit("venues") >>, params |-> << <<"limit", Str("10")>> >>],
      [path |-> OrdersPath, params |-> Account],
      [path |-> OrdersPath, params |-> Account \o << <<"marketId", Str("XLMUSD")>> >>] }

\* the extra parameters a caller hands to fetchMarkets
MarketParams == { <<>>, << <<"venueId", Str("sandbox-public")>> >> }

\* the body a caller hands to sign: the generated endpoint methods pass none
CallerBodies == {Undef, Str("raw")}

-----------------------------------------------------------------------------

Init ==
    /\ now = StartMs
    /\ issued = <<>>
    /\ apiKey \in {Undef, Str("key")}
    /\ secret \in {Undef, Str("c2VjcmV0")}
    /\ password \in {Undef, Str("pass")}
    /\ options = describeOptions
    /\ markets_by_id = Undef
    /\ call = [op |-> "none"]
    /\ ret = [kind |-> "none"]

HandleErrors ==
    /\ \/ \E o \in Envelopes :
            /\ call' = [op |-> "handleErrors", body |-> RawBody(o), response |-> Obj(o)]
            /\ ret' = handleErrors(RawBody(o), Obj(o))
       \/ \E b \in Undecodable :
            /\ call' = [op |-> "handleErrors", body |-> b, response |-> Undef]
            /\ ret' = handleErrors(b, Undef)
    /\ UNCHANGED <<now, issued, apiKey, secret, password, options, markets_by_id>>

Tick ==
    /\ now < StartMs + MaxTicks * TickMs
    /\ now' = now + TickMs
    /\ UNCHANGED <<issued, apiKey, secret, password, options, call, ret, markets_by_id>>

Sign ==
    \E e \in Endpoints, api \in {"public", "private"}, method \in Methods,
       body \in CallerBodies :
        LET r == sign(e.path, api, method, e.params, Undef, body)
        IN  /\ Len(issued) + Len(r.drawn) <= MaxSigned
            /\ call' = [op |-> "sign", path |-> e.path, api |-> api, method |-> method,
                        params |-> e.params, headers |-> Undef, body |-> body]
            /\ ret' = r.out
            /\ issued' = issued \o r.drawn
            /\ UNCHANGED <<now, apiKey, secret, password, options, markets_by_id>>

\* setSandboxMode (enabled)
setSandboxMode(enabled) ==
    LET venues == options.venues
    IN  IF enabled
        THEN LET backedUp == Put(venues, "backup", Get(venues, "main"))
             IN  [options EXCEPT !.venues = Put(backedUp, "main", Get(backedUp, "sandbox"))]
        ELSE IF Has(venues, "backup")
             THEN [options EXCEPT !.venues = Put(venues, "main", Get(venues, "backup"))]
             ELSE options

SetSandboxMode ==
    \E enabled \in BOOLEAN :
        /\ call' = [op |-> "setSandboxMode", enabled |-> enabled]
        /\ options' = setSandboxMode(enabled)
        /\ ret' = Return(Undef)
        /\ UNCHANGED <<now, issued, apiKey, secret, password, markets_by_id>>

\* fetchMarkets (params), up to the request it sends
fetchMarketsRequest(params) ==
    LET request == << <<"venueId", options.venueId>> >>
    IN  sign(<< Lit("venues"), Par("venueId"), Lit("markets") >>, "public", "GET",
             Extend(request, params), Undef, Undef).out

FetchMarkets ==
    \E params \in MarketParams :
        /\ call' = [op |-> "fetchMarkets", params |-> params]
        /\ ret' = fetchMarketsRequest(params)
        /\ UNCHANGED <<now, issued, apiKey, secret, password, options, markets_by_id>>

-----------------------------------------------------------------------------
(* parseOrder (order, market)                                              *)

\* the order with its remaining amount a copy of what was ordered
parseOrder_RemainingIsAmount(order, market) ==
    LET amount == safeFloat(order, "size", Undef)
        filled == safeFloat(order, "sizeFilled", Undef)
    IN  [id |-> safeString(order, "id"),
         info |-> order,
         symbol |-> IF ~IsUndef(market) THEN Get(market.v, "symbol") ELSE Undef,
         datetime |-> safeString(order, "placedAt"),
         timestamp |-> parse8601(safeString(order, "placedAt")),
         side |-> safeString(order, "side"),
         amount |-> amount,
         filled |-> filled,
         remaining |-> amount,
         price |-> safeFloat(order, "price", Undef)]

parseOrder(order, market) ==
    LET symbol == IF ~IsUndef(market) THEN Get(market.v, "symbol") ELSE Undef
        id_ == safeString(order, "id")
        datetime == safeString(order, "placedAt")
        amount == safeFloat(order, "size", Undef)
        filled == safeFloat(order, "sizeFilled", Undef)
    IN  [id |-> id_,
         info |-> order,
         symbol |-> symbol,
         datetime |-> datetime,
         timestamp |-> parse8601(datetime),
         side |-> safeString(order, "side"),
         amount |-> amount,
         filled |-> filled,
         remaining |-> Minus(amount, filled),
         price |-> safeFloat(order, "price", Undef)]

Field(k, v) == IF v = <<"absent">> THEN <<>> ELSE << <<k, Str(v)>> >>

\* what the venue reports for size and sizeFilled: "0", "1.5", "2.00",
\* "0.5", text that is no number, or nothing
Sizes == { <<"absent">>, <<"0">>, <<"1", ".", "5">>, <<"2", ".", "0", "0">>, <<"a", "b", "c">> }
SizesFilled == { <<"absent">>, <<"0">>, <<"1", ".", "5">>, <<"0", ".", "5">>, <<"x">> }

RawOrder(size, sizeFilled) ==
    << <<"id", Str("a38d8bcb")>>,
       <<"placedAt", Str("2019-02-01T18:44:21Z")>>,
       <<"side", Str("sell")>>,
       <<"price", Str(<<"0", ".", "1">>)>> >>
    \o Field("size", size) \o Field("sizeFilled", sizeFilled)

Markets == { Undef, Obj(<< <<"id", Str("XLMUSD")>>, <<"symbol", Str("XLM/USD")>> >>) }

ParseOrder ==
    \E size \in Sizes, sizeFilled \in SizesFilled, market \in Markets :
        /\ call' = [op |-> "parseOrder", order |-> RawOrder(size, sizeFilled), market |-> market]
        /\ ret' = Return(parseOrder(RawOrder(size, sizeFilled), market))
        /\ UNCHANGED <<now, issued, apiKey, secret, password, options, markets_by_id>>

-----------------------------------------------------------------------------
(* fetchBalance (params)                                                   *)

\* the account with the usual convention, free = available
balanceAccount_FreeIsAvailable(entry) ==
    LET total == safeFloat(entry, "amount", Num(0))
        available == safeFloat(entry, "availableForTrade", Num(0))
    IN  << <<"total", total>>, <<"available", available>>, <<"free", available>> >>

\* the account of one entry of the listing
balanceAccount(entry) ==
    LET total == safeFloat(entry, "amount", Num(0))
        available == safeFloat(entry, "availableForTrade", Num(0))
    IN  << <<"total", total>>,
           <<"available", available>>,
           <<"free", Minus(total, available)>> >>

balanceCode(entry) == commonCurrencyCode(Joined(SplitFirst(Get(entry, "assetId").v, "/")))

RECURSIVE balanceAccounts(_, _)
balanceAccounts(balances, result) ==
    IF balances = <<>> THEN result
    ELSE balanceAccounts(Tail(balances),
                         Put(result, balanceCode(balances[1]), Obj(balanceAccount(balances[1]))))

\* the accounts, indexed once more by free, used and total
parseBalance(result) ==
    LET index(a) == [i \in 1..Len(result) |-> <<result[i][1], Get(result[i][2].v, a)>>]
    IN  result \o << <<"free", Obj(index("free"))>>,
                     <<"used", Obj(index("used"))>>,
                     <<"total", Obj(index("total"))>> >>

AccountPath == << Lit("venues"), Par("venueId"), Lit("accounts"), Par("accountId") >>

\* the outcome of fetchBalance, given the venue's answer, and the nonces drawn
fetchBalance(params, answer) ==
    LET request == Extend(<< <<"venueId", options.venueId>>,
                             <<"accountId", options.accountId>> >>, params)
        signed == sign(AccountPath, "private", "GET", request, Undef, Undef)
        classified == handleErrors(answer.body, answer.response)
    IN  IF ~Truthy(Get(request, "accountId"))
        THEN [out |-> Throw("ArgumentsRequired", id), drawn |-> <<>>]
        ELSE IF signed.out.kind = "throw"
        THEN signed
        ELSE IF classified.kind = "throw"
        THEN [out |-> classified, drawn |-> signed.drawn]
        ELSE LET balances == Get(Get(answer.response.v, "result").v, "balances").v
             IN  [out |-> Return(parseBalance(balanceAccounts(balances, <<>>))),
                  drawn |-> signed.drawn]

\* what the venue reports for amount and availableForTrade
Amounts == { <<"absent">>, <<"2", ".", "5">> }
Availables == { <<"absent">>, <<"1">>, <<"3">> }

AssetIds == << <<"X", "L", "M", "/", "n", "a", "t", "i", "v", "e">>,
               <<"X", "B", "T", "/", "s", "t", "r", "o", "n", "g", "h", "o", "l", "d", ".", "c", "o">> >>

RawBalance(asset, amount, available) ==
    << <<"assetId", Str(AssetIds[asset])>> >>
    \o Field("amount", amount) \o Field("availableForTrade", available)

RawBalances(asset) ==
    { RawBalance(asset, amount, available) : amount \in Amounts, available \in Availables }

\* listings of one entry for each asset held
BalanceListings ==
    {<<>>} \cup { <<e>> : e \in RawBalances(1) \cup RawBalances(2) }
           \cup { <<e1, e2>> : e1 \in RawBalances(1), e2 \in RawBalances(2) }

BalanceAnswers ==
    { [body |-> "{\"success\":true,\"result\":{\"balances\":[]}}",
       response |-> Obj(<< <<"success", Bool(TRUE)>>,
                           <<"result", Obj(<< <<"balances", [t |-> "array", v |-> bs]>> >>)>> >>)]
        : bs \in BalanceListings }
    \cup { [body |-> RawBody(o), response |-> Obj(o)]
            : o \in { Envelope("absent", "false"), Envelope("CREDENTIAL_REVOKED", "false") } }

BalanceParams == { <<>>, << <<"accountId", Str("acct")>> >> }

FetchBalance ==
    \E params \in BalanceParams, answer \in BalanceAnswers :
        LET r == fetchBalance(params, answer)
        IN  /\ Len(issued) + Len(r.drawn) <= MaxSigned
            /\ call' = [op |-> "fetchBalance", params |-> params, answer |-> answer]
            /\ ret' = r.out
            /\ issued' = issued \o r.drawn
            /\ UNCHANGED <<now, apiKey, secret, password, options, markets_by_id>>

-----------------------------------------------------------------------------
(* parseTrade (trade, market)                                              *)

Arr(a) == [t |-> "array", v |-> a]

isArray(x) == x.t = "array"

\* the ISO-8601 string of an instant
iso8601(x) == IF IsUndef(x) THEN Undef ELSE [t |-> "iso8601", of |-> x]

XLMUSD == Obj(<< <<"id", Str("XLMUSD")>>, <<"symbol", Str("XLM/USD")>> >>)

\* the index that loading the markets builds
LoadedMarkets == Obj(<< <<"XLMUSD", XLMUSD>> >>)

LoadMarkets ==
    /\ markets_by_id' = LoadedMarkets
    /\ call' = [op |-> "loadMarkets"]
    /\ ret' = Return(Undef)
    /\ UNCHANGED <<now, issued, apiKey, secret, password, options>>

Trade(trade, id_, timestamp, market, orderId, side, price, amount, cost, takerOrMaker) ==
    [id |-> id_,
     info |-> trade,
     timestamp |-> timestamp,
     datetime |-> iso8601(timestamp),
     symbol |-> IF ~IsUndef(market) THEN Get(market.v, "symbol") ELSE Undef,
     type |-> Undef,
     order |-> orderId,
     side |-> side,
     price |-> price,
     amount |-> amount,
     cost |-> cost,
     takerOrMaker |-> takerOrMaker,
     fee |-> [cost |-> Undef, currency |-> Undef, rate |-> Undef]]

\* the market looked up only when none was handed in
parseTrade_ArgumentFirst(trade, market) ==
    IF isArray(trade)
    THEN Trade(trade, Undef, parse8601(trade.v[4]), market, Undef,
               parseFloat(trade.v[3].v), parseFloat(trade.v[1].v), parseFloat(trade.v[2].v),
               Undef, Undef)
    ELSE LET marketId == safeString(trade.v, "marketId")
             found == IF IsUndef(markets_by_id) THEN Undef
                      ELSE safeValue(markets_by_id.v, ToKey(marketId))
         IN  Trade(trade,
                   safeString(trade.v, "id"),
                   parse8601(safeString(trade.v, "executedAt")),
                   IF IsUndef(market) THEN found ELSE market,
                   safeString(trade.v, "orderId"),
                   safeString(trade.v, "side"),
                   safeFloat(trade.v, "price", Undef),
                   safeFloat(trade.v, "size", Undef),
                   Undef,
                   IF Truthy(Get(trade.v, "maker")) THEN Str("maker") ELSE Str("taker"))

parseTrade(trade, market) ==
    IF isArray(trade)
    THEN Trade(trade, Undef, parse8601(trade.v[4]), market, Undef,
               parseFloat(trade.v[3].v), parseFloat(trade.v[1].v), parseFloat(trade.v[2].v),
               Undef, Undef)
    ELSE LET marketId == safeString(trade.v, "marketId")
             found == IF IsUndef(markets_by_id) THEN Undef
                      ELSE safeValue(markets_by_id.v, ToKey(marketId))
         IN  Trade(trade,
                   safeString(trade.v, "id"),
                   parse8601(safeString(trade.v, "executedAt")),
                   found,
                   safeString(trade.v, "orderId"),
                   safeString(trade.v, "side"),
                   safeFloat(trade.v, "price", Undef),
                   safeFloat(trade.v, "size", Undef),
                   Undef,
                   IF Truthy(Get(trade.v, "maker")) THEN Str("maker") ELSE Str("taker"))

\* the public feed: [ price, amount, side, timestamp ]
TupleTrades ==
    { Arr(<< Str(price), Str(amount), Str(side), Str("2019-01-27T23:02:04Z") >>)
        : price \in { <<"0", ".", "5">>, <<"1", ".", "5">> },
          amount \in { <<"1">>, <<"2", ".", "5">> },
          side \in { <<"b", "u", "y">>, <<"s", "e", "l", "l">> } }

OptionalString(k, v) == IF v = "absent" THEN <<>> ELSE << <<k, Str(v)>> >>
OptionalFlag(k, v) == IF v = "absent" THEN <<>> ELSE << <<k, Bool(v = "true")>> >>

\* the private history: objects with marketId and the maker flag
ObjectTrades ==
    { Obj(<< <<"id", Str("9cdb109c")>>,
             <<"orderId", Str("a38d8bcb")>>,
             <<"side", Str("sell")>>,
             <<"size", Str(<<"1">>)>>,
             <<"price", Str(<<"0", ".", "5">>)>>,
             <<"executedAt", Str("2019-02-01T18:44:21Z")>> >>
          \o OptionalString("marketId", marketId) \o OptionalFlag("maker", maker))
        : marketId \in {"XLMUSD", "ETHBTC", "absent"}, maker \in {"true", "false", "absent"} }

ParseTrade ==
    \E trade \in TupleTrades \cup ObjectTrades, market \in Markets :
        /\ call' = [op |-> "parseTrade", trade |-> trade, market |-> market]
        /\ ret' = Return(parseTrade(trade, market))
        /\ UNCHANGED <<now, issued, apiKey, secret, password, options, markets_by_id>>

-----------------------------------------------------------------------------
(* fetchCurrencies (params)                                                *)

\* the whole number a value holds, undefined when it holds none
safeInteger(o, k) ==
    LET n == asFloat(Get(o, k))
    IN  IF IsNum(n) THEN Num((n.v \div Pow10(Scale)) * Pow10(Scale)) ELSE Undef

AssetsPath == << Lit("venues"), Par("venueId"), Lit("assets") >>

currency(entry) ==
    LET currencyId == safeString(entry, "code")
        code == IF IsUndef(currencyId) THEN Undef
                ELSE Str(commonCurrencyCode(Joined(currencyId.v)))
        precision == safeInteger(entry, "displayDecimalsFull")
    IN  << <<"code", code>>,
           <<"id", currencyId>>,
           <<"precision", precision>>,
           <<"info", Obj(entry)>> >>

RECURSIVE currencies(_, _)
currencies(data, result) ==
    IF data = <<>> THEN result
    ELSE currencies(Tail(data),
                    Put(result, ToKey(Get(currency(data[1]), "code")), Obj(currency(data[1]))))

\* the outcome of fetchCurrencies, given the venue's answer
fetchCurrencies(params, answer) ==
    LET request == << <<"venueId", options.venueId>> >>
        signed == sign(AssetsPath, "public", "GET", Extend(request, params), Undef, Undef)
        classified == handleErrors(answer.body, answer.response)
    IN  IF signed.out.kind = "throw" THEN signed.out
        ELSE IF classified.kind = "throw" THEN classified
        ELSE Return(currencies(Get(answer.response.v, "result").v, <<>>))

\* the venue's assets: id, code and displayDecimalsFull
RawAsset(asset, decimals) ==
    << <<"id", Str(CASE asset = "XLM" -> <<"X", "L", "M", "/", "n", "a", "t", "i", "v", "e">>
                     [] asset = "XBT" -> <<"X", "B", "T", "/", "s", "t", "r", "o", "n", "g",
                                           "h", "o", "l", "d", ".", "c", "o">>
                     [] asset = "SHX" -> <<"S", "H", "X", "/", "s", "t", "r", "o", "n", "g",
                                           "h", "o", "l", "d", ".", "c", "o">>)>>,
       <<"code", Str(CASE asset = "XLM" -> <<"X", "L", "M">>
                       [] asset = "XBT" -> <<"X", "B", "T">>
                       [] asset = "SHX" -> <<"S", "H", "X">>)>>,
       <<"displayDecimalsFull", Num(decimals * Pow10(Scale))>> >>

RawAssets(asset) == { <<>> } \cup { << RawAsset(asset, decimals) >> : decimals \in {7, 8} }

AssetListings == { a \o b \o c : a \in RawAssets("XLM"), b \in RawAssets("XBT"), c \in RawAssets("SHX") }

AssetAnswers ==
    { [body |-> "{\"success\":true,\"result\":[]}",
       response |-> Obj(<< <<"success", Bool(TRUE)>>, <<"result", Arr(data)>> >>)]
        : data \in AssetListings }
    \cup { [body |-> RawBody(o), response |-> Obj(o)] : o \in { Envelope("absent", "false") } }

FetchCurrencies ==
    \E params \in MarketParams, answer \in AssetAnswers :
        /\ call' = [op |-> "fetchCurrencies", params |-> params, answer |-> answer]
        /\ ret' = fetchCurrencies(params, answer)
        /\ UNCHANGED <<now, issued, apiKey, secret, password, options, markets_by_id>>

NextSigner ==
    \/ Tick
    \/ Sign
    \/ SetSandboxMode
    \/ FetchMarkets

NextClassifier ==
    \/ HandleErrors

NextNormalizer ==
    \/ ParseOrder
    \/ FetchBalance

NextTrades ==
    \/ LoadMarkets
    \/ ParseTrade

NextCatalog ==
    \/ FetchCurrencies

Next ==
    \/ NextSigner
    \/ NextClassifier
    \/ NextNormalizer
    \/ NextTrades
    \/ NextCatalog

Spec == Init /\ [][Next]_vars

\* the components on their own
SpecSigner == Init /\ [][NextSigner]_vars
SpecClassifier == Init /\ [][NextClassifier]_vars
SpecNormalizer == Init /\ [][NextNormalizer]_vars
SpecTrades == Init /\ [][NextTrades]_vars
SpecCatalog == Init /\ [][NextCatalog]_vars

-----------------------------------------------------------------------------
(* The error classifier                                                    *)

Classified == call.op = "handleErrors" /\ call.response.t = "object"

\* the error code of the envelope classified, "absent" when it has none
CodeSent ==
    IF Has(call.response.v, "errorCode") THEN Get(call.response.v, "errorCode").v ELSE "absent"

\* the success flag of the envelope classified
FlagSent ==
    IF ~Has(call.response.v, "success") THEN "absent"
    ELSE IF Get(call.response.v, "success").v THEN "true" ELSE "false"

TableCodes ==
    {"CREDENTIAL_MISSING", "CREDENTIAL_INVALID", "CREDENTIAL_REVOKED",
     "CREDENTIAL_NO_IDENTITY", "PASSPHRASE_INVALID", "SIGNATURE_INVALID",
     "TIME_INVALID", "BYPASS_INVALID", "INSUFFICIENT_FUNDS"}

\* C1: an envelope whose errorCode is in the error-code table raises the
\* kind the table maps the code to, whatever its success flag (true, false
\* or absent), and never the generic venue error.
C1_RecognizedCodeTakesPriority ==
    (Classified /\ CodeSent \in TableCodes) =>
        /\ Threw
        /\ ret.error = Get(exceptions, CodeSent)
        /\ ret.error # "ExchangeError"

\* a recognized code sent with success = true has raised its classified kind
C1_Witness ==
    /\ Classified
    /\ CodeSent = "INSUFFICIENT_FUNDS"
    /\ FlagSent = "true"
    /\ Threw
    /\ ret.error = "InsufficientFunds"

KindClaimed(code) ==
    CASE code = "TIME_INVALID" -> "InvalidNonce"
      [] code = "INSUFFICIENT_FUNDS" -> "InsufficientFunds"
      [] OTHER -> "AuthenticationError"

\* the kind each venue code raises
KindRaised(code) ==
    CASE code = "TIME_INVALID" -> "InvalidNonce"
      [] code = "INSUFFICIENT_FUNDS" -> "InsufficientFunds"
      [] code = "CREDENTIAL_REVOKED" -> "AccountSuspended"
      [] OTHER -> "AuthenticationError"

\* C3 as stated: the seven credential, passphrase, signature and bypass
\* codes all raise AuthenticationError, TIME_INVALID raises InvalidNonce and
\* INSUFFICIENT_FUNDS raises InsufficientFunds.
C3_AsStated ==
    (Classified /\ CodeSent \in TableCodes) => (Threw /\ ret.error = KindClaimed(CodeSent))

\* C3 amended: CREDENTIAL_REVOKED raises AccountSuspended; the six other
\* credential, passphrase, signature and bypass codes raise
\* AuthenticationError, TIME_INVALID raises InvalidNonce and
\* INSUFFICIENT_FUNDS raises InsufficientFunds; exactly these nine codes are
\* in the table.
C3_TableKinds ==
    /\ Keys(exceptions) = TableCodes
    /\ (Classified /\ CodeSent \in TableCodes) => (Threw /\ ret.error = KindRaised(CodeSent))

\* a revoked credential has raised AccountSuspended
C3_Witness ==
    /\ Classified
    /\ CodeSent = "CREDENTIAL_REVOKED"
    /\ Threw
    /\ ret.error = "AccountSuspended"

-----------------------------------------------------------------------------
(* The request signer                                                      *)

SignCalled == call.op = "sign"
SignedPrivate == SignCalled /\ call.api = "private" /\ Returned

AnyCredentialMissing == IsUndef(apiKey) \/ IsUndef(secret) \/ IsUndef(password)

\* the request path of the endpoint signed, parameters substituted
PathSigned ==
    IF call.path = << Lit("venues") >>
    THEN "/v1/venues"
    ELSE "/v1/venues/trade-public/accounts/acct/orders"

\* the parameters of the call that its path does not consume
QuerySigned ==
    SelectSeq(call.params, LAMBDA p : p[1] \notin {"venueId", "accountId"} \/ call.path = << Lit("venues") >>)

HeaderSigned(name) == Get(ret.value.headers.v, name)

\* C4 as stated: the nonce of each signed request is strictly greater than
\* the nonce of every earlier signed request of the same credential.
C4_AsStated ==
    \A i, j \in 1..Len(issued) : i < j => issued[i] < issued[j]

\* C5: the payload signed is the nonce's decimal string, the method, the
\* request path and, only when the request has a body, that body, in this
\* order; the nonce in it is the one in SH-CRED-TIME and the body in it is
\* the body returned.
C5_PayloadOrder ==
    SignedPrivate =>
        LET n == issued[Len(issued)]
            body == ret.value.body
        IN  /\ HeaderSigned("SH-CRED-TIME") = Str(toString(n))
            /\ HeaderSigned("SH-CRED-SIG").payload =
                  IF IsUndef(body)
                  THEN toString(n) \o call.method \o PathSigned
                  ELSE toString(n) \o call.method \o PathSigned \o body.v

\* in second 10 a private GET of /v1/venues with no parameters has signed
\* "10GET/v1/venues{}"
C5_Witness ==
    /\ SignedPrivate
    /\ issued[Len(issued)] = 10
    /\ HeaderSigned("SH-CRED-TIME") = Str("10")
    /\ ret.value.body = Str("{}")
    /\ HeaderSigned("SH-CRED-SIG").payload = "10GET/v1/venues{}"

\* C6 as stated: a GET with a non-empty query has no body and its query in
\* the URL; every other request has the query, as JSON, for its body.
C6_AsStated ==
    (SignCalled /\ Returned /\ IsUndef(call.body)) =>
        IF call.method = "GET" /\ QuerySigned # <<>>
        THEN /\ IsUndef(ret.value.body)
             /\ ret.value.url = "https://api.stronghold.co" \o PathSigned
                                \o "?" \o urlencode(QuerySigned)
        ELSE ret.value.body = Str(json(QuerySigned))

\* C7: a private sign with a credential missing fails with a configuration
\* error, no nonce drawn and no header produced; a public sign needs no
\* credential and returns the headers it was given, none of them an
\* authentication header.
C7_CredentialsCheckedFirst ==
    /\ AnyCredentialMissing => issued = <<>>
    /\ (SignCalled /\ call.api = "private" /\ AnyCredentialMissing) =>
            (Threw /\ ret.error = CredentialError)
    /\ (SignCalled /\ call.api = "public") =>
            (Returned /\ ret.value.headers = Undef)

\* a private sign has failed for want of the passphrase alone
C7_Witness ==
    /\ SignCalled
    /\ call.api = "private"
    /\ ~IsUndef(apiKey) /\ ~IsUndef(secret) /\ IsUndef(password)
    /\ Threw
    /\ issued = <<>>

\* C8 as stated: a request that follows setSandboxMode(true) goes to the
\* sandbox venue, with the live venue kept in the backup slot, and a
\* request that follows setSandboxMode(false) goes to the live venue.
C8_AsStated ==
    [][(call.op = "setSandboxMode" /\ call'.op = "fetchMarkets" /\ call'.params = <<>>) =>
          IF call.enabled
          THEN /\ ret'.value.url = "https://api.stronghold.co/v1/venues/sandbox-public/markets"
               /\ Get(options.venues, "backup") = Str("trade-public")
          ELSE ret'.value.url = "https://api.stronghold.co/v1/venues/trade-public/markets"]_vars

-----------------------------------------------------------------------------
(* The order and balance normalizers                                       *)

\* the number a decimal string of the venue stands for, in units of 10^-Scale
Reported(cs) ==
    CASE cs = <<"0">> -> 0
      [] cs = <<"1">> -> Pow10(Scale)
      [] cs = <<"3">> -> 3 * Pow10(Scale)
      [] cs = <<"0", ".", "5">> -> 5 * Pow10(Scale - 1)
      [] cs = <<"1", ".", "5">> -> 15 * Pow10(Scale - 1)
      [] cs = <<"2", ".", "5">> -> 25 * Pow10(Scale - 1)
      [] cs = <<"2", ".", "0", "0">> -> 2 * Pow10(Scale)

Numerals == { <<"0">>, <<"1">>, <<"3">>, <<"0", ".", "5">>, <<"1", ".", "5">>,
              <<"2", ".", "5">>, <<"2", ".", "0", "0">> }

IsNumeral(o, k) == Has(o, k) /\ Get(o, k).v \in Numerals

OrderParsed == call.op = "parseOrder" /\ Returned

\* C9: an order whose size and sizeFilled both parse is returned with
\* amount the parsed size, filled the parsed sizeFilled and
\* remaining = amount - filled, also when filled = 0 and when
\* filled = amount.
C9_RemainingIsAmountLessFilled ==
    (OrderParsed /\ IsNumeral(call.order, "size") /\ IsNumeral(call.order, "sizeFilled")) =>
        LET amount == Reported(Get(call.order, "size").v)
            filled == Reported(Get(call.order, "sizeFilled").v)
        IN  /\ ret.value.amount = Num(amount)
            /\ ret.value.filled = Num(filled)
            /\ ret.value.remaining = Num(amount - filled)

\* an order of 1.5 filled to 1.5 is returned with nothing remaining
C9_Witness ==
    /\ OrderParsed
    /\ Get(call.order, "size") = Str(<<"1", ".", "5">>)
    /\ Get(call.order, "sizeFilled") = Str(<<"1", ".", "5">>)
    /\ ret.value.amount = Num(15 * Pow10(Scale - 1))
    /\ ret.value.remaining = Num(0)

BalanceFetched == call.op = "fetchBalance" /\ Returned

BalancesSent == Get(Get(call.answer.response.v, "result").v, "balances").v

ReportedOrZero(entry, k) == IF Has(entry, k) THEN Reported(Get(entry, k).v) ELSE 0

AccountOf(entry) ==
    Get(ret.value, IF Get(entry, "assetId").v = AssetIds[1] THEN "XLM" ELSE "BTC").v

\* C10: every entry of the listing yields total = its amount (0 if absent),
\* available = its availableForTrade (0 if absent) and
\* free = total - available; with both fields absent all three are 0.
C10_FreeIsTotalLessAvailable ==
    BalanceFetched =>
        \A i \in 1..Len(BalancesSent) :
            LET entry == BalancesSent[i]
                total == ReportedOrZero(entry, "amount")
                available == ReportedOrZero(entry, "availableForTrade")
            IN  /\ Get(AccountOf(entry), "total") = Num(total)
                /\ Get(AccountOf(entry), "available") = Num(available)
                /\ Get(AccountOf(entry), "free") = Num(total - available)

\* a listing of 2.5 XLM with 1 available for trade, and of XBT with neither
\* field, has yielded XLM free 1.5 and BTC total = available = free = 0
C10_Witness ==
    /\ BalanceFetched
    /\ BalancesSent = << RawBalance(1, <<"2", ".", "5">>, <<"1">>),
                         RawBalance(2, <<"absent">>, <<"absent">>) >>
    /\ Get(Get(ret.value, "XLM").v, "free") = Num(15 * Pow10(Scale - 1))
    /\ Get(Get(ret.value, "XLM").v, "available") = Num(Pow10(Scale))
    /\ Get(ret.value, "BTC").v =
          << <<"total", Num(0)>>, <<"available", Num(0)>>, <<"free", Num(0)>> >>

-----------------------------------------------------------------------------
(* The trade normalizer                                                    *)

TradeParsed == call.op = "parseTrade" /\ Returned
TupleParsed == TradeParsed /\ call.trade.t = "array"
ObjectParsed == TradeParsed /\ call.trade.t = "object"

\* C11 as stated: a trade given as [price, amount, side, timestamp] is
\* returned with side the tuple's string token, price and amount the parsed
\* first and second elements, the timestamp parsed from the fourth, and id,
\* order, takerOrMaker and cost unset.
C11_AsStated ==
    TupleParsed =>
        /\ ret.value.side.t = "string"
        /\ ret.value.side = call.trade.v[3]
        /\ ret.value.price = Num(Reported(call.trade.v[1].v))
        /\ ret.value.amount = Num(Reported(call.trade.v[2].v))
        /\ ret.value.timestamp = [t |-> "instant", of |-> call.trade.v[4].v]
        /\ IsUndef(ret.value.id)
        /\ IsUndef(ret.value.order)
        /\ IsUndef(ret.value.takerOrMaker)
        /\ IsUndef(ret.value.cost)

\* the symbol the market index gives a venue market id
SymbolIndexed(marketId) ==
    IF ~IsUndef(markets_by_id) /\ marketId = "XLMUSD" THEN Str("XLM/USD") ELSE Undef

\* C12: a trade given as an object has the symbol of the market its
\* marketId is indexed under, or none when the index has no such market,
\* whatever market was handed in; takerOrMaker is "maker" when the maker
\* flag is true and "taker" when it is false.
C12_SymbolFromIndex ==
    ObjectParsed =>
        /\ ret.value.symbol =
              SymbolIndexed(IF Has(call.trade.v, "marketId")
                            THEN Get(call.trade.v, "marketId").v ELSE "absent")
        /\ Get(call.trade.v, "maker") = Bool(TRUE) => ret.value.takerOrMaker = Str("maker")
        /\ Get(call.trade.v, "maker") = Bool(FALSE) => ret.value.takerOrMaker = Str("taker")

\* with the markets loaded, a taker trade of a market the index lacks,
\* handed in with the XLM/USD market, is returned with no symbol
C12_Witness ==
    /\ ObjectParsed
    /\ ~IsUndef(markets_by_id)
    /\ Get(call.trade.v, "marketId") = Str("ETHBTC")
    /\ Get(call.trade.v, "maker") = Bool(FALSE)
    /\ call.market = XLMUSD
    /\ IsUndef(ret.value.symbol)
    /\ ret.value.takerOrMaker = Str("taker")

\* C13 as stated: an order whose size or sizeFilled is missing or does not
\* parse raises a failure; no order is returned for it.
C13_AsStated ==
    (call.op = "parseOrder"
        /\ ~(IsNumeral(call.order, "size") /\ IsNumeral(call.order, "sizeFilled"))) => Threw

-----------------------------------------------------------------------------
(* The currency normalizer                                                 *)

CurrenciesFetched == call.op = "fetchCurrencies" /\ Returned

AssetsSent == Get(call.answer.response.v, "result").v

\* the canonical code of a venue asset id: its leading segment, normalized
CodeOfAssetId(assetId) ==
    LET segment == Joined(SplitFirst(assetId, "/"))
    IN  IF segment = "XBT" THEN "BTC" ELSE segment

\* C14 as stated: every asset entry yields a currency whose code is the
\* normalized leading segment of the entry's id, whose id is the entry's
\* id and whose precision is the entry's displayDecimalsFull.
C14_AsStated ==
    CurrenciesFetched =>
        \A i \in 1..Len(AssetsSent) :
            LET entry == AssetsSent[i]
                code == CodeOfAssetId(Get(entry, "id").v)
            IN  /\ Has(ret.value, code)
                /\ Get(Get(ret.value, code).v, "code") = Str(code)
                /\ Get(Get(ret.value, code).v, "id") = Get(entry, "id")
                /\ Get(Get(ret.value, code).v, "precision") = Get(entry, "displayDecimalsFull")

====
